---- MODULE Spec2Model ----
(***************************************************************************)
(* Auto-capture buffering of the Momo memory plugin (src/index.ts):        *)
(* per-channel message buffers, silence timers, flushBuffer, the overflow  *)
(* flush of the agent_end hook and the flush loop of the service's stop.   *)
(***************************************************************************)
EXTENDS Integers, Sequences, FiniteSets, TLC

\* Number of agent_end events delivered in one behaviour.
MaxEvents == 2

\* Number of extraction calls that fail in one behaviour.
MaxFailures == 1
MaxGiven == 100

SILENCE_TIMEOUT_MS == 300000
MAX_BUFFER_SIZE == 20
MIN_FLUSH_SIZE == 4
OVERLAP == 4
MIN_CONTENT_LENGTH == 5

VARIABLES
  messageBuffers,  \* Map<string, BufferedMessage[]>: entries <<key, array>> in insertion order
  silenceTimers,   \* Map<string, Timeout>: entries <<key, handle>> in insertion order
  liveTimers,      \* the runtime's scheduled one-shot timers: [id, key, delay]
  calls,           \* extraction requests issued so far, each with its caller and outcome
  warnings,        \* the calls whose failure flushBuffer has logged with logger.warn
  stopPc,          \* the stop handler: "idle", "loop", "await" or "done"
  stopPos,         \* entries of messageBuffers the stop loop's iterator has passed
  drain,           \* record of the stop run: buffers at its start, keys visited, interleaving
  clock,           \* number of agent_end events handled; the `now` of the next one
  recall,          \* the before_agent_start hook: its position, event, text, query, result
  chat,            \* the last call of looksLikeCasualChat: its argument and its verdict
  plugin,          \* the host's settings and what register has registered with the host
  search           \* the last call of the momo_search tool: its limit and the limit sent

captureVars ==
  <<messageBuffers, silenceTimers, liveTimers, calls, warnings, stopPc, stopPos, drain, clock>>

vars == <<captureVars, recall, chat, plugin, search>>

--------------------------------------------------------------------------
\* JavaScript Map, as the ordered list of its entries.

MapHas(m, k) == \E i \in 1..Len(m) : m[i][1] = k

MapIndex(m, k) == CHOOSE i \in 1..Len(m) : m[i][1] = k

MapGet(m, k) == m[MapIndex(m, k)][2]

MapSet(m, k, v) ==
  IF MapHas(m, k) THEN [m EXCEPT ![MapIndex(m, k)] = <<k, v>>] ELSE Append(m, <<k, v>>)

MapDelete(m, k) == SelectSeq(m, LAMBDA e : e[1] # k)

MapKeys(m) == {m[i][1] : i \in 1..Len(m)}

MapKeyList(m) == [i \in 1..Len(m) |-> m[i][1]]

\* Position of a live Map iterator that has passed `pos` entries, after delete(k).
IterAfterDelete(m, k, pos) ==
  IF MapHas(m, k) /\ MapIndex(m, k) <= pos THEN pos - 1 ELSE pos

\* The same, when delete(k) happened only if `before` had k and `after` has not.
PosAfter(before, after, k, pos) ==
  IF MapHas(before, k) /\ ~MapHas(after, k) THEN IterAfterDelete(before, k, pos) ELSE pos

--------------------------------------------------------------------------
\* Events of the host runtime.

\* Falsy strings stand for an absent field.
Absent == ""

Or(a, b) == IF a # Absent THEN a ELSE b

getChannelKeyIdFirst(event) == Or(event.session.id, Or(event.session.channelId, "default"))

getChannelKey(event) == Or(event.session.channelId, Or(event.session.id, "default"))

\* The three shapes of session identity; the last two name the same channel.
SessionFlush == [channelId |-> Absent, id |-> "default__flush"]
SessionChannel == [channelId |-> "default", id |-> "s1"]
NoSession == [channelId |-> Absent, id |-> Absent]

RECURSIVE Unary(_)
Unary(n) == IF n = 0 THEN "" ELSE "x" \o Unary(n - 1)

\* Text(0) has 5 characters, Text(i) has 5 + i.
Text(i) == "text-" \o Unary(i)

StringContent(s) == [kind |-> "string", text |-> s, parts |-> <<>>]
ArrayContent(ps) == [kind |-> "array", text |-> "", parts |-> ps]
OtherContent == [kind |-> "other", text |-> "", parts |-> <<>>]

Plain(n) ==
  [i \in 1..n |-> [role |-> IF i % 2 = 1 THEN "user" ELSE "assistant",
                   content |-> StringContent(Text(i))]]

\* One qualifying message (the fourth) among messages the handler drops.
Mixed ==
  << [role |-> "system", content |-> StringContent(Text(3))],
     [role |-> "user", content |-> StringContent(Text(0))],
     [role |-> "user", content |-> OtherContent],
     [role |-> "assistant",
      content |-> ArrayContent(<< [type |-> "text", text |-> "ab"],
                                  [type |-> "image", text |-> "zzzzzzzz"],
                                  [type |-> "text", text |-> "cdef"] >>)],
     [role |-> "user",
      content |-> ArrayContent(<< [type |-> "text", text |-> "ab"],
                                  [type |-> "text", text |-> "cd"] >>)] >>

\* No qualifying message: a foreign role, an empty text, a text of 5 characters,
\* a content that is no text, parts none of which is text.
Junk ==
  << [role |-> "tool", content |-> StringContent(Text(4))],
     [role |-> "assistant", content |-> StringContent("")],
     [role |-> "user", content |-> StringContent(Text(0))],
     [role |-> "user", content |-> OtherContent],
     [role |-> "assistant",
      content |-> ArrayContent(<< [type |-> "image", text |-> "zzzzzzzz"] >>)] >>

\* An event without messages.
NoMessages == <<>>

Event(s, m) == [session |-> s, messages |-> m]

\* The channel "default" gets the large events, the channel "default__flush", whose
\* key is the transient key of "default", the small one.
Events ==
  {Event(NoSession, m) : m \in {Plain(4), Plain(16), Plain(20)}}
    \cup {Event(SessionChannel, Junk), Event(SessionChannel, NoMessages),
          Event(SessionFlush, Mixed)}

--------------------------------------------------------------------------
\* agent_end: extraction of the qualifying messages.

RECURSIVE Join(_, _)
Join(texts, sep) ==
  IF Len(texts) = 0 THEN ""
  ELSE IF Len(texts) = 1 THEN texts[1]
  ELSE texts[1] \o sep \o Join(Tail(texts), sep)

TextParts(parts) ==
  LET kept == SelectSeq(parts, LAMBDA c : c.type = "text")
  IN [i \in 1..Len(kept) |-> kept[i].text]

Flatten(content) ==
  IF content.kind = "string" THEN content.text
  ELSE IF content.kind = "array" THEN Join(TextParts(content.parts), "\n")
  ELSE ""

QualifiesAnyRole(msg) ==
  /\ Flatten(msg.content) # ""
  /\ Len(Flatten(msg.content)) > MIN_CONTENT_LENGTH

Qualifies(msg) ==
  /\ msg.role \in {"user", "assistant"}
  /\ Flatten(msg.content) # ""
  /\ Len(Flatten(msg.content)) > MIN_CONTENT_LENGTH

NewMessages(event, now) ==
  LET kept == SelectSeq(event.messages, Qualifies)
  IN [i \in 1..Len(kept) |->
        [role |-> kept[i].role, content |-> Flatten(kept[i].content), timestamp |-> now]]

SliceFirst(s, n) == IF Len(s) <= n THEN s ELSE SubSeq(s, 1, n)

\* Array.prototype.slice(-n)
SliceLast(s, n) == IF Len(s) <= n THEN s ELSE SubSeq(s, Len(s) - n + 1, Len(s))

TempKey(channelKey) == channelKey \o "__flush"

--------------------------------------------------------------------------
\* Timers of the runtime.

UsedHandles ==
  {t.id : t \in liveTimers} \cup {silenceTimers[i][2] : i \in 1..Len(silenceTimers)}

\* setTimeout returns a handle distinct from every handle still referenced.
NewHandle == CHOOSE h \in 1..(Cardinality(UsedHandles) + 1) : h \notin UsedHandles

ClearTimeoutNothing(timers, h) == timers

ClearTimeout(timers, h) == {t \in timers : t.id # h}

--------------------------------------------------------------------------
\* flushBuffer up to its await: the buffer table it leaves and the request it sends.

\* The body of the POST to /api/ext/extract, with the caller that awaits it (origin)
\* and the state of the call (status).
Request(messages, channelKey, origin) ==
  [messages |-> messages,
   source |-> "openclaw",
   channel |-> channelKey,
   origin |-> origin,
   status |-> "pending"]

FlushBufferAlways(buffers, channelKey, origin) ==
  [buffers |-> buffers,
   requests |-> <<Request(IF MapHas(buffers, channelKey) THEN MapGet(buffers, channelKey)
                          ELSE <<>>, channelKey, origin)>>]

FlushBufferNoFloor(buffers, channelKey, origin) ==
  IF ~MapHas(buffers, channelKey)
  THEN [buffers |-> MapDelete(buffers, channelKey), requests |-> <<>>]
  ELSE [buffers |-> buffers,
        requests |-> <<Request(MapGet(buffers, channelKey), channelKey, origin)>>]

FlushBuffer(buffers, channelKey, origin) ==
  IF ~MapHas(buffers, channelKey) \/ Len(MapGet(buffers, channelKey)) < MIN_FLUSH_SIZE
  THEN [buffers |-> MapDelete(buffers, channelKey), requests |-> <<>>]
  ELSE [buffers |-> buffers,
        requests |-> <<Request(MapGet(buffers, channelKey), channelKey, origin)>>]

AfterCallKeepOverlap(buffers, channelKey, response) ==
  IF MapHas(buffers, channelKey)
  THEN MapSet(buffers, channelKey, SliceLast(MapGet(buffers, channelKey), OVERLAP))
  ELSE buffers

AfterCallOnSuccess(buffers, channelKey, response) ==
  IF response.ok THEN MapDelete(buffers, channelKey) ELSE buffers

AfterCallEmptied(buffers, channelKey, response) ==
  IF MapHas(buffers, channelKey) THEN MapSet(buffers, channelKey, <<>>) ELSE buffers

\* flushBuffer after its try/catch, whatever the call's outcome was.
AfterCall(buffers, channelKey, response) == MapDelete(buffers, channelKey)

\* The stop loop is disturbed by every step that is not its own.
NoDrain == [clean |-> FALSE, start |-> <<>>, visited |-> <<>>]

Disturb == IF stopPc \in {"loop", "await"} THEN NoDrain ELSE drain

--------------------------------------------------------------------------
\* Auto-recall. A text is the sequence of its UTF-16 code units, each a
\* one-character string; the two units of an emoji are named by their hex code.
MIN_RECALL_LENGTH == 30
DEFAULT_LIMIT == 5
MAX_LIMIT == 20
CASUAL_MAX_LENGTH == 40
QUERY_MAX_LENGTH == 500

LowerCaseLetters ==
  << "a", "b", "c", "d", "e", "f", "g", "h", "i", "j", "k", "l", "m",
     "n", "o", "p", "q", "r", "s", "t", "u", "v", "w", "x", "y", "z" >>

UpperCaseLetters ==
  << "A", "B", "C", "D", "E", "F", "G", "H", "I", "J", "K", "L", "M",
     "N", "O", "P", "Q", "R", "S", "T", "U", "V", "W", "X", "Y", "Z" >>

DigitChars == {"0", "1", "2", "3", "4", "5", "6", "7", "8", "9"}

\* The characters \s and trim() take for white space, as far as texts here use them.
WhiteSpace == {" ", "\t", "\n", "\r"}

\* The characters \w matches; \b lies between one of them and anything else.
WordChars ==
  {LowerCaseLetters[i] : i \in 1..26} \cup {UpperCaseLetters[i] : i \in 1..26}
    \cup DigitChars \cup {"_"}

SetMin(S) == CHOOSE x \in S : \A y \in S : x <= y
SetMax(S) == CHOOSE x \in S : \A y \in S : x >= y

toLowerCase(text) ==
  [i \in 1..Len(text) |->
     IF \E j \in 1..26 : UpperCaseLetters[j] = text[i]
     THEN LowerCaseLetters[CHOOSE j \in 1..26 : UpperCaseLetters[j] = text[i]]
     ELSE text[i]]

trimNothing(text) == text

trim(text) ==
  LET kept == {i \in 1..Len(text) : text[i] \notin WhiteSpace}
  IN IF kept = {} THEN <<>> ELSE SubSeq(text, SetMin(kept), SetMax(kept))

\* text.slice(0, n)
slice(text, n) == SubSeq(text, 1, IF Len(text) < n THEN Len(text) ELSE n)

\* s occurs in text from offset `at` on.
OccursAt(text, s, at) ==
  /\ at + Len(s) <= Len(text)
  /\ SubSeq(text, at + 1, at + Len(s)) = s

includes(text, s) == \E at \in 0..Len(text) : OccursAt(text, s, at)

\* \b after the first `at` characters of text.
WordBoundary(text, at) ==
  LET before == at >= 1 /\ at <= Len(text) /\ text[at] \in WordChars
      after == at + 1 <= Len(text) /\ text[at + 1] \in WordChars
  IN before # after

\* The regular expressions /^prefix\s*(a|b|...)\b/: `gap` tells whether \s* follows
\* the prefix, `boundary` whether \b closes the expression.
casualPatterns ==
  <<
    [prefix |-> <<>>, gap |-> FALSE, boundary |-> TRUE,
     alternatives |->
       { <<"h", "i">>, <<"h", "e", "y">>, <<"h", "e", "l", "l", "o">>, <<"y", "o">>,
         <<"s", "u", "p">>, <<"h", "o", "l", "a">>, <<"h", "o", "w", "d", "y">>,
         <<"h", "i", "y", "a">>, <<"h", "e", "y", "a">> }],
    [prefix |-> <<"g", "o", "o", "d">>, gap |-> TRUE, boundary |-> TRUE,
     alternatives |->
       { <<"m", "o", "r", "n", "i", "n", "g">>, <<"a", "f", "t", "e", "r", "n", "o", "o", "n">>,
         <<"e", "v", "e", "n", "i", "n", "g">>, <<"n", "i", "g", "h", "t">> }],
    [prefix |-> <<>>, gap |-> FALSE, boundary |-> TRUE,
     alternatives |->
       { <<"t", "h", "a", "n", "k", "s">>, <<"t", "h", "a", "n", "k", " ", "y", "o", "u">>,
         <<"t", "h", "x">>, <<"t", "y">> }],
    [prefix |-> <<>>, gap |-> FALSE, boundary |-> TRUE,
     alternatives |->
       { <<"o", "k">>, <<"o", "k", "a", "y">>, <<"s", "u", "r", "e">>,
         <<"g", "o", "t", " ", "i", "t">>,
         <<"s", "o", "u", "n", "d", "s", " ", "g", "o", "o", "d">>, <<"c", "o", "o", "l">>,
         <<"n", "i", "c", "e">>, <<"g", "r", "e", "a", "t">>, <<"a", "w", "e", "s", "o", "m", "e">>,
         <<"p", "e", "r", "f", "e", "c", "t">> }],
    [prefix |-> <<>>, gap |-> FALSE, boundary |-> TRUE,
     alternatives |->
       { <<"b", "y", "e">>, <<"g", "o", "o", "d", "b", "y", "e">>,
         <<"s", "e", "e", " ", "y", "o", "u">>, <<"l", "a", "t", "e", "r">>, <<"g", "n">>,
         <<"t", "t", "y", "l">> }],
    [prefix |-> <<>>, gap |-> FALSE, boundary |-> TRUE,
     alternatives |->
       { <<"y", "e", "s">>, <<"n", "o">>, <<"y", "e", "p">>, <<"n", "o", "p", "e">>,
         <<"y", "e", "a", "h">>, <<"n", "a", "h">> }],
    [prefix |-> <<>>, gap |-> FALSE, boundary |-> FALSE,
     alternatives |->
       { <<"l", "o", "l">>, <<"l", "m", "a", "o">>, <<"h", "a", "h", "a">>, <<"h", "e", "h">>,
         <<"D83D", "DE02">>, <<"D83D", "DC4D">>, <<"D83D", "DE4F">> }],
    [prefix |-> <<>>, gap |-> FALSE, boundary |-> TRUE,
     alternatives |->
       { <<"h", "o", "w", " ", "a", "r", "e", " ", "y", "o", "u">>,
         <<"w", "h", "a", "t", "'", "s", " ", "u", "p">>,
         <<"w", "h", "a", "t", "s", " ", "u", "p">>, <<"w", "a", "s", "s", "u", "p">> }]
  >>

\* pattern.test(text)
test(pattern, text) ==
  /\ OccursAt(text, pattern.prefix, 0)
  /\ \E n \in 0..(IF pattern.gap THEN Len(text) ELSE 0) :
       /\ \A i \in 1..n :
            /\ Len(pattern.prefix) + i <= Len(text)
            /\ text[Len(pattern.prefix) + i] \in WhiteSpace
       /\ \E word \in pattern.alternatives :
            /\ OccursAt(text, word, Len(pattern.prefix) + n)
            /\ pattern.boundary
               => WordBoundary(text, Len(pattern.prefix) + n + Len(word))

keywords ==
  { <<"d", "e", "c", "i", "d", "e">>, <<"d", "e", "c", "i", "s", "i", "o", "n">>,
    <<"c", "h", "o", "s", "e">>, <<"c", "h", "o", "i", "c", "e">>,
    <<"a", "g", "r", "e", "e", "d">>, <<"a", "p", "p", "r", "o", "v", "e", "d">>,
    <<"c", "o", "m", "m", "i", "t", "t", "e", "d">>, <<"p", "l", "a", "n">>,
    <<"s", "t", "r", "a", "t", "e", "g", "y">>, <<"p", "r", "i", "o", "r", "i", "t">>,
    <<"d", "e", "l", "e", "g", "a", "t", "e">>, <<"w", "h", "a", "t", " ", "d", "i", "d">>,
    <<"w", "h", "e", "n", " ", "d", "i", "d">>, <<"w", "h", "o", " ", "s", "a", "i", "d">>,
    <<"r", "e", "m", "e", "m", "b", "e", "r">>,
    <<"l", "a", "s", "t", " ", "t", "i", "m", "e">>,
    <<"p", "r", "e", "v", "i", "o", "u", "s", "l", "y">>, <<"b", "e", "f", "o", "r", "e">>,
    <<"h", "i", "s", "t", "o", "r", "y">>, <<"r", "e", "c", "a", "p">>,
    <<"s", "u", "m", "m", "a", "r", "y">>, <<"m", "e", "e", "t", "i", "n", "g">>,
    <<"d", "i", "s", "c", "u", "s", "s", "e", "d">>, <<"u", "p", "d", "a", "t", "e">>,
    <<"s", "t", "a", "t", "u", "s">>, <<"p", "r", "o", "g", "r", "e", "s", "s">>,
    <<"d", "e", "a", "d", "l", "i", "n", "e">>, <<"s", "c", "h", "e", "d", "u", "l", "e">>,
    <<"b", "u", "d", "g", "e", "t">>, <<"r", "o", "a", "d", "m", "a", "p">>,
    <<"m", "i", "l", "e", "s", "t", "o", "n", "e">> }

hasMemoryKeywords(text) == \E kw \in keywords : includes(text, kw)

looksLikeCasualChat(text) ==
  LET lower == trim(toLowerCase(text))
  IN IF \E i \in 1..Len(casualPatterns) : test(casualPatterns[i], lower)
     THEN TRUE
     ELSE /\ Len(lower) < CASUAL_MAX_LENGTH
          /\ ~includes(lower, <<"?">>)
          /\ ~hasMemoryKeywords(lower)


--------------------------------------------------------------------------
\* Inputs of the before_agent_start hook.
Repeat(c, n) == [i \in 1..n |-> c]

Asked == <<"w", "h", "a", "t", " ", "d", "i", "d", " ", "w", "e", " ", "d", "e", "c", "i", "d", "e">>

\* 29 characters with a keyword and a question mark.
Question29 == Asked \o <<"?", " ">> \o Repeat("x", 9)
\* 30 characters with a keyword.
Relevant30 == Asked \o <<" ">> \o Repeat("x", 11)
\* 30 and 40 characters without keyword or question mark.
Plain30 == Repeat("x", 30)
Plain40 == Repeat("x", 40)
\* 45 characters, a keyword behind a greeting.
Greeting45 == <<"h", "e", "y", " ">> \o Asked \o <<" ">> \o Repeat("x", 22)
\* 30 blanks.
Blank30 == Repeat(" ", 30)
\* 501 characters with a keyword.
Long501 == Asked \o <<" ">> \o Repeat("x", 482)

RecallMessage(role, text) == [role |-> role, content |-> StringContent(text)]
RecallParts(parts) == [kind |-> "array", text |-> <<>>, parts |-> parts]
NoText == [kind |-> "other", text |-> <<>>, parts |-> <<>>]

LastOfTwoUsers ==
  << RecallMessage("user", Plain40), RecallMessage("assistant", Greeting45),
     RecallMessage("user", Relevant30) >>
UserThenAssistant ==
  << RecallMessage("user", Relevant30), RecallMessage("assistant", Plain40) >>
LastUserNotText ==
  << RecallMessage("user", Relevant30), [role |-> "user", content |-> NoText] >>
LastUserEmpty ==
  << RecallMessage("user", Relevant30), RecallMessage("user", <<>>) >>
UserParts ==
  << [role |-> "user",
      content |-> RecallParts(<< [type |-> "text", text |-> Asked],
                                 [type |-> "image", text |-> Plain40],
                                 [type |-> "text", text |-> Repeat("x", 11)] >>)] >>
NoUser ==
  << RecallMessage("assistant", Plain40), RecallMessage("tool", Relevant30) >>

MessageLists ==
  { LastOfTwoUsers, UserThenAssistant, LastUserNotText, LastUserEmpty, UserParts, NoUser,
    <<>>, <<RecallMessage("user", Question29)>>, <<RecallMessage("user", Plain30)>>,
    <<RecallMessage("user", Greeting45)>>, <<RecallMessage("user", Blank30)>>,
    <<RecallMessage("user", Long501)>> }

\* event.messages is an array or is missing; event.prompt is a string or is missing.
RecallEvents ==
  { [messages |-> m, prompt |-> p] :
      m \in {[present |-> TRUE, list |-> l] : l \in MessageLists}
             \cup {[present |-> FALSE, list |-> <<>>]},
      p \in {[present |-> TRUE, text |-> t] : t \in {Plain40, Question29, <<>>}}
             \cup {[present |-> FALSE, text |-> <<>>]} }

RECURSIVE JoinText(_, _)
JoinText(texts, sep) ==
  IF Len(texts) = 0 THEN <<>>
  ELSE IF Len(texts) = 1 THEN texts[1]
  ELSE texts[1] \o sep \o JoinText(Tail(texts), sep)

\* The text of a user message: the string, or the text parts joined by a blank.
userText(content) ==
  IF content.kind = "string" THEN content.text
  ELSE IF content.kind = "array" THEN JoinText(TextParts(content.parts), <<" ">>)
  ELSE <<>>

firstUserMessage(messages, i) ==
  LET users == {j \in 1..i : messages[j].role = "user"}
  IN IF users = {} THEN <<>> ELSE userText(messages[SetMin(users)].content)

\* The loop from messages[i] downwards, left at the first user message it meets.
RECURSIVE lastUserMessage(_, _)
lastUserMessage(messages, i) ==
  IF i < 1 THEN <<>>
  ELSE IF messages[i].role = "user" THEN userText(messages[i].content)
  ELSE lastUserMessage(messages, i - 1)

\* userMessage when the hook reaches its length test.
userMessageOf(event) ==
  LET found == IF event.messages.present
               THEN lastUserMessage(event.messages.list, Len(event.messages.list))
               ELSE <<>>
  IN IF found = <<>> /\ event.prompt.present THEN event.prompt.text ELSE found

SkipCasualOnly(userMessage) == looksLikeCasualChat(userMessage)

\* The two early returns of the hook.
Skip(userMessage) ==
  \/ userMessage = <<>>
  \/ Len(userMessage) < MIN_RECALL_LENGTH
  \/ looksLikeCasualChat(userMessage)

\* What momoFetch yields: it throws, or it returns the body { context, decisionsIncluded }.
RecallResponses ==
  {[ok |-> FALSE, context |-> Absent, decisionsIncluded |-> 0]}
    \cup {[ok |-> TRUE, context |-> c, decisionsIncluded |-> d] :
            c \in {Absent, "We chose Postgres."}, d \in {0, 2}}

NoResponse == [ok |-> FALSE, context |-> Absent, decisionsIncluded |-> 0]
EmptyResult == [inject |-> FALSE, prependContext |-> ""]

Inject(response) ==
  [inject |-> TRUE,
   prependContext |-> "<momo-memory source=\"team-decisions\">\n" \o response.context
                        \o "\n</momo-memory>"]

HandledRethrow(response) ==
  IF ~response.ok
  THEN [pc |-> "threw", result |-> EmptyResult, warned |-> FALSE]
  ELSE IF response.context # Absent /\ response.decisionsIncluded > 0
  THEN [pc |-> "done", result |-> Inject(response), warned |-> FALSE]
  ELSE [pc |-> "done", result |-> EmptyResult, warned |-> FALSE]

\* The hook from the return of momoFetch on: try, catch and the final return.
Handled(response) ==
  IF response.ok /\ response.context # Absent /\ response.decisionsIncluded > 0
  THEN [pc |-> "done", result |-> Inject(response), warned |-> FALSE]
  ELSE [pc |-> "done", result |-> EmptyResult, warned |-> ~response.ok]

RecallIdle ==
  [pc |-> "idle", event |-> [messages |-> [present |-> FALSE, list |-> <<>>],
                             prompt |-> [present |-> FALSE, text |-> <<>>]],
   userMessage |-> <<>>, queried |-> FALSE, query |-> <<>>,
   response |-> NoResponse, result |-> EmptyResult, warned |-> FALSE]

ChatIdle == [called |-> FALSE, text |-> <<>>, casual |-> FALSE]


--------------------------------------------------------------------------
\* Registration. A flag of pluginConfig is given by the name of its JavaScript
\* value; a key that is not set is the empty string.
FlagValues == {"undefined", "true", "false"}

Hosts ==
  { [pluginConfig |-> [apiKey |-> k[1], autoCapture |-> c, autoRecall |-> r],
     env |-> [MOMO_API_KEY |-> k[2]]] :
      k \in {<<"config-key", Absent>>, <<Absent, "env-key">>, <<Absent, Absent>>},
      c \in FlagValues, r \in FlagValues }

\* A host with an API key and neither flag set.
DefaultHost ==
  [pluginConfig |-> [apiKey |-> "config-key", autoCapture |-> "undefined",
                     autoRecall |-> "undefined"],
   env |-> [MOMO_API_KEY |-> Absent]]

resolveConfigFlagsOn(host) ==
  [apiKey |-> Or(host.pluginConfig.apiKey, Or(host.env.MOMO_API_KEY, "")),
   autoCapture |-> TRUE,
   autoRecall |-> TRUE]

resolveConfig(host) ==
  [apiKey |-> Or(host.pluginConfig.apiKey, Or(host.env.MOMO_API_KEY, "")),
   autoCapture |-> host.pluginConfig.autoCapture # "false",
   autoRecall |-> host.pluginConfig.autoRecall # "false"]

MomoTools ==
  {"momo_search", "momo_store", "momo_context", "momo_summary", "momo_schedule",
   "momo_list_schedules", "momo_cancel_schedule"}

Loaded(host) ==
  [pc |-> "loaded", host |-> host, tools |-> {}, hooks |-> {}, cli |-> FALSE,
   service |-> FALSE, errors |-> 0]

RegisteredAnyway(host) ==
  LET config == resolveConfig(host)
  IN [Loaded(host) EXCEPT
        !.pc = "registered",
        !.tools = MomoTools,
        !.hooks = (IF config.autoRecall THEN {"before_agent_start"} ELSE {})
                    \cup (IF config.autoCapture THEN {"agent_end"} ELSE {}),
        !.cli = TRUE,
        !.service = TRUE]

\* The plugin after register(api) has returned.
Registered(host) ==
  LET config == resolveConfig(host)
  IN IF config.apiKey = ""
     THEN [Loaded(host) EXCEPT !.pc = "registered", !.errors = 1]
     ELSE [Loaded(host) EXCEPT
             !.pc = "registered",
             !.tools = MomoTools,
             !.hooks = (IF config.autoRecall THEN {"before_agent_start"} ELSE {})
                         \cup (IF config.autoCapture THEN {"agent_end"} ELSE {}),
             !.cli = TRUE,
             !.service = TRUE]

\* The momo_search tool. A limit is a JavaScript number or is missing; whole
\* numbers carry their value, the others are named by their kind.
Num(n) == [kind |-> "number", value |-> n]
NaN == [kind |-> "NaN", value |-> 0]
Infinity == [kind |-> "Infinity", value |-> 0]
MinusInfinity == [kind |-> "-Infinity", value |-> 0]
Undefined == [kind |-> "undefined", value |-> 0]

Limits ==
  {Num(n) : n \in (0 - MaxGiven)..MaxGiven} \cup {NaN, Infinity, MinusInfinity, Undefined}

SearchParams ==
  { [query |-> "aws migration", limit |-> l, source |-> s] :
      l \in Limits, s \in {Absent, "slack"} }

\* limit || 5: 0, NaN and undefined are falsy.
OrNumber(l, n) ==
  IF l.kind \in {"undefined", "NaN"} \/ (l.kind = "number" /\ l.value = 0)
  THEN Num(n)
  ELSE l

MathMinNothing(l, n) == l

\* Math.min(l, n) for a number l that is not NaN.
MathMin(l, n) ==
  CASE l.kind = "number" -> Num(IF l.value < n THEN l.value ELSE n)
    [] l.kind = "Infinity" -> Num(n)
    [] OTHER -> l

DigitString(d) ==
  CASE d = 0 -> "0" [] d = 1 -> "1" [] d = 2 -> "2" [] d = 3 -> "3" [] d = 4 -> "4"
    [] d = 5 -> "5" [] d = 6 -> "6" [] d = 7 -> "7" [] d = 8 -> "8" [] d = 9 -> "9"

RECURSIVE DecimalString(_)
DecimalString(n) ==
  IF n < 10 THEN DigitString(n) ELSE DecimalString(n \div 10) \o DigitString(n % 10)

\* String(l)
String(l) ==
  CASE l.kind = "number" ->
         IF l.value < 0 THEN "-" \o DecimalString(0 - l.value) ELSE DecimalString(l.value)
    [] OTHER -> l.kind

\* The query string momo_search builds.
SearchQuery(params) ==
  [query |-> params.query,
   limit |-> String(MathMin(OrNumber(params.limit, DEFAULT_LIMIT), MAX_LIMIT)),
   source |-> params.source]

SearchIdle ==
  [called |-> FALSE, limit |-> Undefined,
   qs |-> [query |-> "", limit |-> "", source |-> Absent]]


Init ==
  /\ messageBuffers = <<>>
  /\ silenceTimers = <<>>
  /\ liveTimers = {}
  /\ calls = <<>>
  /\ warnings = {}
  /\ stopPc = "idle"
  /\ stopPos = 0
  /\ drain = [clean |-> TRUE, start |-> <<>>, visited |-> <<>>]
  /\ clock = 0
  /\ recall = RecallIdle
  /\ chat = ChatIdle
  /\ plugin = Registered(DefaultHost)
  /\ search = SearchIdle

\* The channel's buffer after the hook has pushed the event's messages.
PushedAt(event, now) ==
  LET channelKey == getChannelKey(event)
      had == IF MapHas(messageBuffers, channelKey) THEN MapGet(messageBuffers, channelKey) ELSE <<>>
  IN had \o NewMessages(event, now)

Pushed(event) == PushedAt(event, clock + 1)

ToExtractWithoutOverlap(buffer) == SubSeq(buffer, 1, Len(buffer) - OVERLAP)

\* [...buffer]
ToExtract(buffer) == buffer

\* The agent_end hook, up to the await of the overflow flush, run when the clock
\* reads now. The host delivers no event to a stopped service.
AgentEndAt(event, now) ==
  LET channelKey == getChannelKey(event)
      newMessages == NewMessages(event, now)
      buffer == PushedAt(event, now)
      pushed == MapSet(messageBuffers, channelKey, buffer)
      cleared == IF MapHas(silenceTimers, channelKey)
                 THEN ClearTimeout(liveTimers, MapGet(silenceTimers, channelKey))
                 ELSE liveTimers
      reseeded == MapSet(pushed, channelKey, SliceLast(buffer, OVERLAP))
      swapped == MapSet(reseeded, TempKey(channelKey), ToExtract(buffer))
      flush == FlushBuffer(swapped, TempKey(channelKey), "overflow")
      handle == NewHandle
  IN /\ "agent_end" \in plugin.hooks
     /\ stopPc # "done"
     /\ clock' = now
     /\ drain' = Disturb
     /\ UNCHANGED <<warnings, stopPc, recall, chat, plugin, search>>
     /\ IF Len(newMessages) = 0
        THEN UNCHANGED <<messageBuffers, silenceTimers, liveTimers, calls, stopPos>>
        ELSE IF Len(buffer) >= MAX_BUFFER_SIZE
        THEN /\ messageBuffers' = flush.buffers
             /\ stopPos' = PosAfter(swapped, flush.buffers, TempKey(channelKey), stopPos)
             /\ calls' = calls \o flush.requests
             /\ liveTimers' = cleared
             /\ UNCHANGED silenceTimers
        ELSE /\ messageBuffers' = pushed
             /\ silenceTimers' = MapSet(silenceTimers, channelKey, handle)
             /\ liveTimers' = cleared \cup {[id |-> handle, key |-> channelKey,
                                             delay |-> SILENCE_TIMEOUT_MS]}
             /\ UNCHANGED <<calls, stopPos>>

\* An event handled after the clock has moved on; MaxEvents of them are followed.
AgentEnd(event) ==
  /\ clock < MaxEvents
  /\ AgentEndAt(event, clock + 1)

\* An event handled within the clock tick of the one before: the timestamps of
\* the hook have the resolution of a millisecond, and any number of events may
\* follow each other this way.
AgentEndSameTick(event) == AgentEndAt(event, clock)

ExpiredStays(timers, t) == timers

\* setTimeout is one-shot: the timer that fires is scheduled no longer.
Expired(timers, t) == timers \ {t}

\* A silence timer fires: its callback up to the await of flushBuffer.
TimerFire(t) ==
  LET flush == FlushBuffer(messageBuffers, t.key, "timer")
  IN /\ liveTimers' = Expired(liveTimers, t)
     /\ silenceTimers' = MapDelete(silenceTimers, t.key)
     /\ messageBuffers' = flush.buffers
     /\ stopPos' = PosAfter(messageBuffers, flush.buffers, t.key, stopPos)
     /\ calls' = calls \o flush.requests
     /\ drain' = Disturb
     /\ UNCHANGED <<warnings, stopPc, clock, recall, chat, plugin, search>>

\* What the extraction API may answer: momoFetch returns the body or throws.
Responses ==
  { [ok |-> TRUE, decisionsFound |-> 0],
    [ok |-> TRUE, decisionsFound |-> 1],
    [ok |-> FALSE, decisionsFound |-> 0] }

\* The catch block of flushBuffer logs a warning; nothing else is done with the error.
Warned(i, response) == IF response.ok THEN {} ELSE {i}

OutcomeRethrown(response) == IF response.ok THEN "ok" ELSE "threw"

\* How the try/catch of flushBuffer ends: the call returned, or it threw and the
\* catch block took the error ("failed"); flushBuffer returns in both cases.
Outcome(response) == IF response.ok THEN "ok" ELSE "failed"

\* The extraction call i returns or throws: flushBuffer from its await to its end,
\* and the resumption of the stop loop when stop awaited it.
FlushDone(i, response) ==
  LET call == calls[i]
      deleted == AfterCall(messageBuffers, call.channel, response)
  IN /\ call.status = "pending"
     /\ response.ok \/ Cardinality(warnings) < MaxFailures
     /\ calls' = [calls EXCEPT ![i].status = Outcome(response)]
     /\ warnings' = warnings \cup Warned(i, response)
     /\ messageBuffers' = deleted
     /\ stopPos' = PosAfter(messageBuffers, deleted, call.channel, stopPos)
     /\ IF call.origin = "stop"
        THEN stopPc' = "loop" /\ UNCHANGED drain
        ELSE UNCHANGED stopPc /\ drain' = Disturb
     /\ UNCHANGED <<silenceTimers, liveTimers, clock, recall, chat, plugin, search>>

DrainTimersKept(channelKey) == [live |-> liveTimers, table |-> silenceTimers]

\* The stop loop cancels the timer of the key it visits and discards its handle.
DrainTimers(channelKey) ==
  IF MapHas(silenceTimers, channelKey)
  THEN [live |-> ClearTimeout(liveTimers, MapGet(silenceTimers, channelKey)),
        table |-> MapDelete(silenceTimers, channelKey)]
  ELSE [live |-> liveTimers, table |-> silenceTimers]

NotAwaited(requests) == "loop"

\* await flushBuffer(...): the loop goes on at once when flushBuffer returned
\* without a call, and otherwise when the call has ended.
Awaited(requests) == IF requests = <<>> THEN "loop" ELSE "await"

\* One turn of the stop handler's loop over messageBuffers, up to its await;
\* pos entries were passed before and d is the record of the run.
LoopStep(pos, d) ==
  IF pos < Len(messageBuffers)
  THEN LET channelKey == messageBuffers[pos + 1][1]
           flush == FlushBuffer(messageBuffers, channelKey, "stop")
       IN /\ liveTimers' = DrainTimers(channelKey).live
          /\ silenceTimers' = DrainTimers(channelKey).table
          /\ messageBuffers' = flush.buffers
          /\ stopPos' = PosAfter(messageBuffers, flush.buffers, channelKey, pos + 1)
          /\ calls' = calls \o flush.requests
          /\ stopPc' = Awaited(flush.requests)
          /\ drain' = IF d.clean THEN [d EXCEPT !.visited = Append(@, channelKey)] ELSE d
          /\ UNCHANGED <<warnings, clock, recall, chat, plugin, search>>
  ELSE /\ stopPc' = "done"
       /\ stopPos' = pos
       /\ drain' = d
       /\ UNCHANGED <<messageBuffers, silenceTimers, liveTimers, calls, warnings, clock, recall, chat, plugin, search>>

\* The host stops the service: the handler starts its loop.
Stop ==
  /\ plugin.service
  /\ stopPc = "idle"
  /\ LoopStep(0, [clean |-> TRUE, start |-> messageBuffers, visited |-> <<>>])

\* The stop handler resumes after an await.
StopResume ==
  /\ stopPc = "loop"
  /\ LoopStep(stopPos, drain)

\* The before_agent_start hook up to its await: it selects the user's text and
\* returns {} or sends the query. One run of the hook is followed at a time.
BeforeAgentStart(event) ==
  /\ "before_agent_start" \in plugin.hooks
  /\ recall.pc \in {"idle", "done"}
  /\ LET userMessage == userMessageOf(event)
     IN recall' = IF Skip(userMessage)
                  THEN [RecallIdle EXCEPT !.pc = "done", !.event = event,
                                          !.userMessage = userMessage]
                  ELSE [RecallIdle EXCEPT !.pc = "awaiting", !.event = event,
                                          !.userMessage = userMessage,
                                          !.queried = TRUE,
                                          !.query = slice(userMessage, QUERY_MAX_LENGTH)]
  /\ UNCHANGED <<captureVars, chat, plugin, search>>

\* momoFetch returns or throws and the hook runs to its end.
RecallDone(response) ==
  /\ recall.pc = "awaiting"
  /\ recall' = [recall EXCEPT !.pc = Handled(response).pc,
                              !.response = response,
                              !.result = Handled(response).result,
                              !.warned = Handled(response).warned]
  /\ UNCHANGED <<captureVars, chat, plugin, search>>

\* A call of looksLikeCasualChat.
CasualChat(text) ==
  /\ chat' = [called |-> TRUE, text |-> text, casual |-> looksLikeCasualChat(text)]
  /\ UNCHANGED <<captureVars, recall, plugin, search>>

Next ==
  \/ \E event \in Events : AgentEnd(event)
  \/ \E t \in liveTimers : TimerFire(t)
  \/ \E i \in 1..Len(calls), response \in Responses : FlushDone(i, response)
  \/ Stop
  \/ StopResume

Spec == Init /\ [][Next]_vars

\* The runtime fires every timer it keeps scheduled, every extraction call returns
\* or throws, and the stop handler resumes after each await; nobody has to stop
\* the service.
FairSpec ==
  /\ Spec
  /\ WF_vars(\E t \in liveTimers : TimerFire(t))
  /\ WF_vars(\E i \in 1..Len(calls), response \in Responses : FlushDone(i, response))
  /\ WF_vars(StopResume)

\* Arguments of looksLikeCasualChat: an opening, whether it is one of the casual
\* openings, what follows it, and how the whole is cased and padded.
ChatHeads ==
  { [head |-> <<"h", "e", "y">>, match |-> TRUE],
    [head |-> <<"h", "i", "y", "a">>, match |-> TRUE],
    [head |-> <<"h", "e", "y", "d", "a", "y">>, match |-> FALSE],
    [head |-> <<"g", "o", "o", "d", " ", "m", "o", "r", "n", "i", "n", "g">>, match |-> TRUE],
    [head |-> <<"g", "o", "o", "d", " ", "\t", " ", "n", "i", "g", "h", "t">>, match |-> TRUE],
    [head |-> <<"g", "o", "o", "d", "e", "v", "e", "n", "i", "n", "g">>, match |-> TRUE],
    [head |-> <<"g", "o", "o", "d", " ", "d", "a", "y">>, match |-> FALSE],
    [head |-> <<"t", "h", "a", "n", "k", " ", "y", "o", "u">>, match |-> TRUE],
    [head |-> <<"o", "k">>, match |-> TRUE],
    [head |-> <<"o", "k", "_">>, match |-> FALSE],
    [head |-> <<"o", "k", ",">>, match |-> TRUE],
    [head |-> <<"s", "o", "u", "n", "d", "s", " ", "g", "o", "o", "d">>, match |-> TRUE],
    [head |-> <<"s", "e", "e", " ", "y", "o", "u">>, match |-> TRUE],
    [head |-> <<"n", "o">>, match |-> TRUE],
    [head |-> <<"n", "o", "t", "e">>, match |-> FALSE],
    [head |-> <<"l", "o", "l">>, match |-> TRUE],
    [head |-> <<"l", "o", "l", "l", "y">>, match |-> TRUE],
    [head |-> <<"D83D", "DE02">>, match |-> TRUE],
    [head |-> <<"h", "o", "w", " ", "a", "r", "e", " ", "y", "o", "u">>, match |-> TRUE],
    [head |-> <<"w", "h", "a", "t", "'", "s", " ", "u", "p">>, match |-> TRUE],
    [head |-> <<"w", "e">>, match |-> FALSE],
    [head |-> <<>>, match |-> FALSE] }

ChatTails == {"none", "short", "to39", "to40", "question", "keyword", "long"}
ChatWraps == {"plain", "upper", "spaced"}

ChatCases ==
  { [head |-> h.head, match |-> h.match, tail |-> t, wrap |-> w] :
      h \in ChatHeads, t \in ChatTails, w \in ChatWraps }

\* The lower-case text of a case, without padding.
BodyOf(c) ==
  LET n == Len(c.head)
      sep == IF n = 0 THEN <<>> ELSE <<" ">>
      fill(k) == Repeat("x", k - n - Len(sep))
  IN c.head \o
     CASE c.tail = "none" -> <<>>
       [] c.tail = "short" -> sep \o <<"x", "x", " ", "x", "x">>
       [] c.tail = "to39" -> sep \o fill(39)
       [] c.tail = "to40" -> sep \o fill(40)
       [] c.tail = "question" -> sep \o <<"x", "x", "?">>
       [] c.tail = "keyword" -> sep \o <<"s", "t", "a", "t", "u", "s", " ", "x", "x">>
       [] c.tail = "long" -> sep \o <<"r", "o", "a", "d", "m", "a", "p", "?">> \o fill(36)

toUpperCase(text) ==
  [i \in 1..Len(text) |->
     IF \E j \in 1..26 : LowerCaseLetters[j] = text[i]
     THEN UpperCaseLetters[CHOOSE j \in 1..26 : LowerCaseLetters[j] = text[i]]
     ELSE text[i]]

TextOf(c) ==
  CASE c.wrap = "plain" -> BodyOf(c)
    [] c.wrap = "upper" -> toUpperCase(BodyOf(c))
    [] c.wrap = "spaced" -> <<" ", "\t">> \o BodyOf(c) \o <<" ", "\n">>

ChatTexts == {TextOf(c) : c \in ChatCases}

ChatNext == \E text \in ChatTexts : CasualChat(text)

\* looksLikeCasualChat applied to one text after another.
ChatSpec == Init /\ [][ChatNext]_vars

RecallNext ==
  \/ \E event \in RecallEvents : BeforeAgentStart(event)
  \/ \E response \in RecallResponses : RecallDone(response)

\* The auto-recall hook, one conversation turn after another.
RecallSpec == Init /\ [][RecallNext]_vars

\* The agent calls the momo_search tool: execute up to its request.
MomoSearch(params) ==
  /\ "momo_search" \in plugin.tools
  /\ search' = [called |-> TRUE, limit |-> params.limit, qs |-> SearchQuery(params)]
  /\ UNCHANGED <<captureVars, recall, chat, plugin>>

SearchNext == \E params \in SearchParams : MomoSearch(params)

\* momo_search called with one limit after another.
SearchSpec == Init /\ [][SearchNext]_vars

\* The host loads the plugin with any of its settings; register has not run.
ConfigInit ==
  /\ messageBuffers = <<>>
  /\ silenceTimers = <<>>
  /\ liveTimers = {}
  /\ calls = <<>>
  /\ warnings = {}
  /\ stopPc = "idle"
  /\ stopPos = 0
  /\ drain = [clean |-> TRUE, start |-> <<>>, visited |-> <<>>]
  /\ clock = 0
  /\ recall = RecallIdle
  /\ chat = ChatIdle
  /\ plugin \in {Loaded(host) : host \in Hosts}
  /\ search = SearchIdle

\* register(api) runs.
Register ==
  /\ plugin.pc = "loaded"
  /\ plugin' = Registered(plugin.host)
  /\ UNCHANGED <<captureVars, recall, chat, search>>

\* The events the host emits under ConfigSpec.
ConfigEvents == {Event(NoSession, Plain(4))}

ConfigRecallEvents ==
  { [messages |-> [present |-> TRUE, list |-> <<RecallMessage("user", text)>>],
     prompt |-> [present |-> FALSE, text |-> <<>>]] : text \in {Relevant30, Question29} }

\* The search the agent runs under ConfigSpec.
ConfigSearchParams == {[query |-> "aws migration", limit |-> Undefined, source |-> Absent]}

ConfigNext ==
  \/ Register
  \/ \E event \in ConfigEvents : AgentEnd(event)
  \/ \E t \in liveTimers : TimerFire(t)
  \/ \E i \in 1..Len(calls), response \in Responses : FlushDone(i, response)
  \/ \E event \in ConfigRecallEvents : BeforeAgentStart(event)
  \/ \E response \in RecallResponses : RecallDone(response)
  \/ \E params \in ConfigSearchParams : MomoSearch(params)

\* The plugin under every setting of the host: registration, then the events
\* the host emits while the service runs.
ConfigSpec == ConfigInit /\ [][ConfigNext]_vars

--------------------------------------------------------------------------
\* Steps, as the properties below read them.

\* The extraction call i returns or throws in this step.
Completes(i) == calls[i].status = "pending" /\ calls'[i].status # "pending"

\* The hook handles event e in this step and e has qualifying messages.
Appends(e) == AgentEnd(e) /\ Len(NewMessages(e, clock + 1)) > 0

\* The stop loop runs flushBuffer on key k in this step.
StopVisits(k) ==
  LET pos == IF stopPc = "idle" THEN 0 ELSE stopPos
  IN /\ stopPc \in {"idle", "loop"}
     /\ pos < Len(messageBuffers)
     /\ messageBuffers[pos + 1][1] = k
     /\ (Stop \/ StopResume)

\* flushBuffer starts on key k in this step, from a timer or from stop.
FlushStarts(k) == (\E t \in liveTimers : t.key = k /\ TimerFire(t)) \/ StopVisits(k)

LastN(s, n) == SubSeq(s, Len(s) - n + 1, Len(s))

HasTwoAppends(buffer) ==
  \E i, j \in 1..Len(buffer) : buffer[i].timestamp # buffer[j].timestamp

--------------------------------------------------------------------------
\* C1: in every reachable state each channel key has at most one live (scheduled,
\* not fired, not cancelled) silence timer.
C1_AtMostOneLiveTimer ==
  \A t1, t2 \in liveTimers : t1.key = t2.key => t1 = t2

\* A channel that got two appends, the second of which re-armed its timer.
C1_Rearmed ==
  /\ MapHas(messageBuffers, "default")
  /\ HasTwoAppends(MapGet(messageBuffers, "default"))
  /\ \E t \in liveTimers : t.key = "default"

\* C2: every request issued in a step carries at least 4 messages, and flushBuffer
\* started on a key that is absent or holds fewer than 4 messages removes the key
\* and issues no request.
C2_NoSmallBatch ==
  [][ /\ \A i \in (Len(calls) + 1)..Len(calls') : Len(calls'[i].messages) >= 4
      /\ \A k \in MapKeys(messageBuffers) \cup {t.key : t \in liveTimers} :
           ( /\ FlushStarts(k)
             /\ ~MapHas(messageBuffers, k) \/ Len(MapGet(messageBuffers, k)) < 4 )
           => ~MapHas(messageBuffers', k) /\ calls' = calls ]_vars

\* An undisturbed stop has flushed a channel of fewer than 4 messages.
C2_SmallFlushed ==
  /\ drain.clean
  /\ \E i \in 1..Len(drain.visited) :
       /\ Len(MapGet(drain.start, drain.visited[i])) \in 1..3
       /\ ~MapHas(messageBuffers, drain.visited[i])
       /\ \A j \in 1..Len(calls) : calls[j].channel # drain.visited[i]

\* C3: a timer firing on a buffer of n messages, 4 <= n < 20, issues exactly one
\* request, whose batch is the n messages in buffer order, and leaves the buffer in
\* place during the call; when a call issued by a timer ends, no further request is
\* issued and the channel key is absent from the buffer table (no overlap is kept).
C3_TimerFlush ==
  [][ /\ \A t \in liveTimers :
           ( /\ TimerFire(t)
             /\ MapHas(messageBuffers, t.key)
             /\ Len(MapGet(messageBuffers, t.key)) \in 4..19 )
           => /\ Len(calls') = Len(calls) + 1
              /\ SubSeq(calls', 1, Len(calls)) = calls
              /\ calls'[Len(calls')].messages = MapGet(messageBuffers, t.key)
              /\ calls'[Len(calls')].status = "pending"
              /\ messageBuffers' = messageBuffers
      /\ \A i \in 1..Len(calls) :
           (Completes(i) /\ calls[i].origin = "timer")
           => /\ ~MapHas(messageBuffers', calls[i].channel)
              /\ Len(calls') = Len(calls) ]_vars

\* A timer-triggered flush of 4 to 19 messages has ended and its key is gone.
C3_TimerFlushed ==
  \E i \in 1..Len(calls) :
    /\ calls[i].origin = "timer"
    /\ calls[i].status = "ok"
    /\ Len(calls[i].messages) \in 4..19
    /\ ~MapHas(messageBuffers, calls[i].channel)

\* C4, as stated: an append that brings the buffer to 20 messages issues at once a
\* request whose batch is the first 16 messages, without the 4 overlap messages.
C4_FirstSixteen ==
  [][ \A e \in Events :
        (Appends(e) /\ Len(Pushed(e)) = 20)
        => /\ Len(calls') = Len(calls) + 1
           /\ calls'[Len(calls')].messages = SubSeq(Pushed(e), 1, 16) ]_vars

\* C4, amended: an append that brings the buffer to 20 messages issues at once (in
\* the same step, waiting for no timer) a request whose batch is all 20 buffered
\* messages in order, the 4 overlap messages included.
C4_WholeBuffer ==
  [][ \A e \in Events :
        (Appends(e) /\ Len(Pushed(e)) = 20)
        => /\ Len(calls') = Len(calls) + 1
           /\ calls'[Len(calls')].messages = Pushed(e)
           /\ LastN(calls'[Len(calls')].messages, 4) = LastN(Pushed(e), 4)
           /\ calls'[Len(calls')].status = "pending" ]_vars

\* An overflow flush of exactly 20 messages is in flight.
C4_OverflowOfTwenty ==
  \E i \in 1..Len(calls) :
    /\ calls[i].origin = "overflow"
    /\ calls[i].status = "pending"
    /\ Len(calls[i].messages) = 20

\* C5: an append that brings the buffer to n >= 20 messages leaves, when the hook
\* reaches its await, exactly the last 4 of the n messages, in order, under the
\* channel's own key.
C5_OverlapKept ==
  [][ \A e \in Events :
        (Appends(e) /\ Len(Pushed(e)) >= 20)
        => /\ MapHas(messageBuffers', getChannelKey(e))
           /\ MapGet(messageBuffers', getChannelKey(e)) = LastN(Pushed(e), 4) ]_vars

\* An overflow flush of more than 20 messages is in flight and the channel's own
\* buffer is the last 4 of them.
C5_OverlapInPlace ==
  \E i \in 1..Len(calls) :
    /\ calls[i].origin = "overflow"
    /\ calls[i].status = "pending"
    /\ Len(calls[i].messages) > 20
    /\ MapHas(messageBuffers, "default")
    /\ MapGet(messageBuffers, "default") = LastN(calls[i].messages, 4)
    /\ calls[i].channel = "default__flush"

Elements(seq) == {seq[i] : i \in 1..Len(seq)}

Sent == UNION {Elements(calls[i].messages) : i \in 1..Len(calls)}

ChannelKeys == {getChannelKey(e) : e \in Events}

\* C6: when a call fails, the step removes the flushed key from the buffer table,
\* logs a warning and does nothing else (no request, no timer); and no request
\* issued afterwards carries the batch of a failed call.
C6_FailureDropsBatch ==
  [][ /\ \A i \in 1..Len(calls) :
           (Completes(i) /\ calls'[i].status = "failed")
           => /\ ~MapHas(messageBuffers', calls[i].channel)
              /\ Len(calls') = Len(calls)
              /\ warnings' = warnings \cup {i}
              /\ liveTimers' = liveTimers
              /\ silenceTimers' = silenceTimers
      /\ \A j \in (Len(calls) + 1)..Len(calls') :
           \A i \in 1..Len(calls) :
             calls[i].status = "failed" => calls'[j].messages # calls[i].messages ]_vars

\* A call has failed, its key is gone, and a request was issued after it.
C6_FailedAndDropped ==
  \E i \in 1..Len(calls) :
    /\ calls[i].status = "failed"
    /\ i \in warnings
    /\ ~MapHas(messageBuffers, calls[i].channel)
    /\ Len(calls) > i

\* C7: when the hook has appended at least one message and reached its end or its
\* await, a live timer exists for the channel key.
C7_AlwaysRearmed ==
  [][ \A e \in Events :
        Appends(e) => \E t \in liveTimers' : t.key = getChannelKey(e) ]_vars

\* C8: once no further event arrives, every channel that has a buffer eventually
\* has none.
C8_EventuallyFlushed ==
  \A k \in ChannelKeys :
    (clock = MaxEvents /\ MapHas(messageBuffers, k)) ~> ~MapHas(messageBuffers, k)

\* C9: when a call ends, every message of the flushed key's buffer either was sent
\* in some request or is still in that key's buffer.
C9_NothingLost ==
  [][ \A i \in 1..Len(calls) :
        (Completes(i) /\ MapHas(messageBuffers, calls[i].channel))
        => \A m \in Elements(MapGet(messageBuffers, calls[i].channel)) :
             \/ m \in Sent
             \/ /\ MapHas(messageBuffers', calls[i].channel)
                /\ m \in Elements(MapGet(messageBuffers', calls[i].channel)) ]_vars

\* The requests stop has issued, in order.
StopCalls == SelectSeq(calls, LAMBDA c : c.origin = "stop")

\* The entries a drain of table m sends: those of at least 4 messages, in order.
Flushable(m) == SelectSeq(m, LAMBDA e : Len(e[2]) >= 4)

\* C10: when stop has returned and no other step interleaved with it, it has
\* visited the keys of the buffer table in insertion order, no timer is left for any
\* of them, it has issued one request for each entry of at least 4 messages (that
\* entry's messages, in order) and none for the others, and the table is empty.
C10_StopDrains ==
  (stopPc = "done" /\ drain.clean)
  => /\ drain.visited = MapKeyList(drain.start)
     /\ \A k \in MapKeys(drain.start) :
          ~MapHas(silenceTimers, k) /\ \A t \in liveTimers : t.key # k
     /\ Len(StopCalls) = Len(Flushable(drain.start))
     /\ \A i \in 1..Len(StopCalls) :
          /\ StopCalls[i].channel = Flushable(drain.start)[i][1]
          /\ StopCalls[i].messages = Flushable(drain.start)[i][2]
          /\ StopCalls[i].status # "pending"
     /\ messageBuffers = <<>>

\* Stop has drained, undisturbed, two channels: the first of at least 4 messages,
\* the second of fewer.
C10_DrainedTwo ==
  /\ stopPc = "done"
  /\ drain.clean
  /\ Len(drain.start) = 2
  /\ Len(drain.start[1][2]) >= 4
  /\ Len(drain.start[2][2]) < 4
  /\ Len(StopCalls) = 1

--------------------------------------------------------------------------
\* The channel whose messages request c carries: an overflow flush runs under
\* the transient key of its channel.
HomeKey(c) ==
  IF c.origin = "overflow"
  THEN CHOOSE k \in ChannelKeys : TempKey(k) = c.channel
  ELSE c.channel

Pending == {i \in 1..Len(calls) : calls[i].status = "pending"}

\* The last 4 messages of the overflow batches: the overlap across a boundary.
OverlapMessages ==
  UNION {Elements(LastN(calls[i].messages, 4)) :
           i \in {j \in 1..Len(calls) : calls[j].origin = "overflow"}}

\* C11: once stop has run its first synchronous part, and as long as nothing else
\* has interleaved, no silence timer is live; and no timer callback runs once stop
\* has been invoked.
C11_TimersCancelledFirst ==
  [][ /\ (stopPc' # "idle" /\ drain'.clean) => liveTimers' = {}
      /\ \A t \in liveTimers : TimerFire(t) => stopPc = "idle" ]_vars

\* C12: a message that is in two requests is one of the 4 overlap messages of an
\* overflow batch.
C12_AtMostOnce ==
  \A i, j \in 1..Len(calls) :
    i # j => (Elements(calls[i].messages) \cap Elements(calls[j].messages))
               \subseteq OverlapMessages

\* C13: no two pending calls carry messages of the same channel.
C13_OneInFlight ==
  \A i, j \in Pending : i # j => HomeKey(calls[i]) # HomeKey(calls[j])

\* C14: while an overflow flush is pending, the buffer table holds at least the 4
\* overlap messages under the channel's own key.
C14_LiveBufferKept ==
  \A i \in Pending :
    calls[i].origin = "overflow"
    => /\ MapHas(messageBuffers, HomeKey(calls[i]))
       /\ Len(MapGet(messageBuffers, HomeKey(calls[i]))) >= 4

\* The messages of event e that qualify, as the claims put it: role user or
\* assistant and a flattened text of more than 5 characters.
QualifyingOf(e) ==
  LET kept == SelectSeq(e.messages,
                        LAMBDA msg : /\ msg.role = "user" \/ msg.role = "assistant"
                                     /\ Len(Flatten(msg.content)) >= 6)
  IN [i \in 1..Len(kept) |-> [role |-> kept[i].role,
                              content |-> Flatten(kept[i].content),
                              timestamp |-> clock + 1]]

BufferOf(m, k) == IF MapHas(m, k) THEN MapGet(m, k) ELSE <<>>

\* C19: an event without qualifying messages leaves the buffer table, the timer
\* table and the scheduled timers as they are and issues no request.
C19_NoOpEvent ==
  [][ \A e \in Events :
        (AgentEnd(e) /\ QualifyingOf(e) = <<>>)
        => UNCHANGED <<messageBuffers, silenceTimers, liveTimers, calls>> ]_vars

\* An event has been handled and nothing is buffered, armed or sent.
C19_NothingAfterEvent ==
  /\ clock = 1
  /\ messageBuffers = <<>>
  /\ silenceTimers = <<>>
  /\ liveTimers = {}
  /\ calls = <<>>
  /\ stopPc = "idle"

\* C20: a step changes the buffer of a channel that has one (an entry that is not
\* the batch of an overflow request in flight) only by clearing it, by appending
\* the qualifying messages of an event of that channel in arrival order, or by
\* re-seeding it with the last 4 of these; and every request issued lists the
\* messages of the buffer it was read from in buffer order.
C20_BufferIsArrivals ==
  [][ /\ \A k \in ChannelKeys :
           (MapHas(messageBuffers, k) /\ ~\E i \in Pending : calls[i].channel = k)
           => \/ BufferOf(messageBuffers', k) = BufferOf(messageBuffers, k)
              \/ BufferOf(messageBuffers', k) = <<>>
              \/ \E e \in Events :
                   /\ AgentEnd(e)
                   /\ getChannelKey(e) = k
                   /\ LET all == BufferOf(messageBuffers, k) \o QualifyingOf(e)
                      IN BufferOf(messageBuffers', k) \in {all, LastN(all, 4)}
      /\ \A j \in (Len(calls) + 1)..Len(calls') :
           calls'[j].messages = BufferOf(messageBuffers', calls'[j].channel) ]_vars

\* C15: looksLikeCasualChat answers true exactly for the texts that open with a
\* casual token, whatever their length, and for the texts whose lower-cased,
\* trimmed form has fewer than 40 characters, no "?" and no keyword.
C15_CasualChat ==
  chat.called
  => \A c \in ChatCases :
       TextOf(c) = chat.text
       => (chat.casual <=> \/ c.match
                           \/ /\ Len(BodyOf(c)) <= 39
                              /\ c.tail \notin {"question", "keyword", "long"})

\* A padded text of 39 characters without casual opening was found casual.
C15_PaddedShortText ==
  \E c \in ChatCases :
    /\ ~c.match /\ c.tail = "to39" /\ c.wrap = "spaced"
    /\ chat.called /\ chat.text = TextOf(c) /\ chat.casual

\* C16: the hook sends a query only for a text of at least 30 characters that
\* is not casual chat; a shorter text is never queried for, whatever it holds.
C16_FloorBeforeQuery ==
  /\ recall.queried => /\ Len(recall.userMessage) >= 30
                       /\ ~looksLikeCasualChat(recall.userMessage)
  /\ recall.query # <<>> => recall.queried

\* A 29-character question with a keyword was skipped.
C16_ShortQuestionSkipped ==
  /\ recall.pc = "done"
  /\ recall.userMessage = Question29
  /\ ~recall.queried

\* C17: the hook ends normally whatever the recall call does; after a failed
\* call its result is empty, and it injects a context only when the response
\* has a non-empty context and decisionsIncluded > 0.
C17_RecallFailsSoft ==
  /\ recall.pc \in {"idle", "awaiting", "done"}
  /\ (recall.pc = "done" /\ recall.queried /\ ~recall.response.ok)
     => recall.result = EmptyResult
  /\ recall.result.inject => /\ recall.queried
                             /\ recall.response.ok
                             /\ recall.response.context # ""
                             /\ recall.response.decisionsIncluded >= 1

\* The recall call failed and the hook returned the empty result.
C17_FailureSwallowed ==
  /\ recall.pc = "done"
  /\ recall.queried
  /\ ~recall.response.ok
  /\ recall.warned
  /\ ~recall.result.inject

\* The text each message list of RecallEvents ends on: that of its last user
\* message, read off the list.
LastUserTextOf(messages) ==
  CASE ~messages.present -> <<>>
    [] messages.list \in {LastOfTwoUsers, UserThenAssistant, UserParts} -> Relevant30
    [] messages.list \in {LastUserNotText, LastUserEmpty, NoUser, <<>>} -> <<>>
    [] OTHER -> messages.list[1].content.text

\* C18: the text the hook filters is that of the last user message of the list;
\* the prompt when this is empty; without either the hook sends no query.
C18_LastUserMessage ==
  recall.pc # "idle"
  => LET last == LastUserTextOf(recall.event.messages)
         expected == IF last # <<>> THEN last
                     ELSE IF recall.event.prompt.present THEN recall.event.prompt.text
                     ELSE <<>>
     IN /\ recall.userMessage = expected
        /\ expected = <<>> => ~recall.queried

\* The later of two user messages was taken; the prompt replaced an empty last one.
C18_LaterUserTaken ==
  /\ recall.pc = "awaiting"
  /\ recall.event.messages.list = LastOfTwoUsers
  /\ recall.event.prompt.present /\ recall.event.prompt.text = Plain40
  /\ recall.userMessage = Relevant30

\* C21: an append to a channel cancels every timer that was live for the channel,
\* so a timer that is live for a channel after the append was armed by it, and
\* only a live timer fires: a timer flush never follows a later append.
C21_Debounce ==
  [][ \A e \in Events :
        Appends(e)
        => /\ \A t \in liveTimers : t.key = getChannelKey(e) => t \notin liveTimers'
           /\ \A t \in liveTimers' \ liveTimers : t.key = getChannelKey(e) ]_vars

\* A second append has replaced the timer of the first: the handle the channel
\* holds is the second one and it alone is scheduled.
C21_TimerReplaced ==
  /\ clock = 2
  /\ MapHas(messageBuffers, "default")
  /\ HasTwoAppends(MapGet(messageBuffers, "default"))
  /\ liveTimers = {[id |-> 2, key |-> "default", delay |-> SILENCE_TIMEOUT_MS]}
  /\ calls = <<>>

\* C22: every extraction call that has ended has returned or has failed inside
\* flushBuffer, where the failure was logged; no caller is left with the error:
\* the stop handler waits only while its call is pending, and goes on afterwards.
C22_FailureContained ==
  /\ \A i \in 1..Len(calls) :
       /\ calls[i].status \in {"pending", "ok", "failed"}
       /\ calls[i].status = "failed" <=> i \in warnings
  /\ stopPc \in {"idle", "loop", "await", "done"}
  /\ stopPc = "await"
     => \E i \in 1..Len(calls) : calls[i].origin = "stop" /\ calls[i].status = "pending"

\* The call of the stop handler failed and the handler ran to its end.
C22_StopAfterFailure ==
  /\ stopPc = "done"
  /\ \E i \in 1..Len(calls) :
       /\ calls[i].origin = "stop"
       /\ calls[i].status = "failed"
       /\ i \in warnings

\* The channel keys under which some event appends a message of this role and
\* content.
KeysOf(msg) ==
  {getChannelKey(e) : e \in {f \in Events :
      \E j \in 1..Len(f.messages) :
         /\ Qualifies(f.messages[j])
         /\ f.messages[j].role = msg.role
         /\ Flatten(f.messages[j].content) = msg.content}}

\* C23: every request carries the source tag "openclaw" and, as its channel, the
\* channel key under which each of its messages was appended.
C23_ChannelOfBatch ==
  \A i \in 1..Len(calls) :
    /\ calls[i].source = "openclaw"
    /\ \A k \in 1..Len(calls[i].messages) : calls[i].channel \in KeysOf(calls[i].messages[k])

\* C24: whenever a step ends, the buffer of a channel that had one before the
\* step (an entry that is not the batch of an overflow request in flight) holds
\* fewer than MAX_BUFFER_SIZE messages.
C24_BoundedBuffers ==
  [][ \A k \in ChannelKeys :
        (MapHas(messageBuffers, k) /\ ~\E i \in Pending : calls[i].channel = k)
        => Len(BufferOf(messageBuffers', k)) <= 19 ]_vars

\* C25: with autoCapture set to false no agent_end hook is registered and the
\* buffer and timer tables stay empty; with autoRecall set to false no
\* before_agent_start hook is registered and the hook sends no recall query; with
\* an API key, a flag of any other value registers its hook, and tools and service
\* are registered whatever the flags are.
C25_FlagsGateHooks ==
  LET flags == plugin.host.pluginConfig
      keyed == flags.apiKey # "" \/ plugin.host.env.MOMO_API_KEY # ""
  IN /\ flags.autoCapture = "false"
        => /\ "agent_end" \notin plugin.hooks
           /\ messageBuffers = <<>> /\ silenceTimers = <<>> /\ liveTimers = {}
           /\ calls = <<>>
     /\ flags.autoRecall = "false"
        => /\ "before_agent_start" \notin plugin.hooks
           /\ recall.pc = "idle" /\ ~recall.queried
     /\ (plugin.pc = "registered" /\ keyed)
        => /\ flags.autoCapture \in {"undefined", "true"} => "agent_end" \in plugin.hooks
           /\ flags.autoRecall \in {"undefined", "true"}
              => "before_agent_start" \in plugin.hooks
           /\ "momo_search" \in plugin.tools
           /\ plugin.service

\* Capture is switched off and recall is not: the recall hook has sent a query
\* and nothing was buffered.
C25_CaptureOffRecallOn ==
  /\ plugin.pc = "registered"
  /\ plugin.host.pluginConfig.autoCapture = "false"
  /\ plugin.host.pluginConfig.autoRecall = "undefined"
  /\ recall.queried
  /\ messageBuffers = <<>>

\* C26: the limit momo_search sends is the decimal form of a number that is at
\* most 20, or stands for minus infinity; it is "5" when no limit is given, and a
\* limit from 1 to 20 is sent as it is.
C26_LimitCapped ==
  search.called
  => /\ search.qs.limit \in {String(Num(n)) : n \in (0 - MaxGiven)..20} \cup {"-Infinity"}
     /\ search.limit = Undefined => search.qs.limit = "5"
     /\ \A n \in 1..20 : search.limit = Num(n) => search.qs.limit = String(Num(n))

\* A limit above 20 was given and 20 was sent.
C26_LargeLimitCut ==
  /\ search.called
  /\ search.limit = Num(21)
  /\ search.qs.limit = "20"

\* C27: the timer that fires is the one the table holds for its key; the step
\* removes that entry, leaves the timer scheduled no longer and starts at most
\* one request.
C27_FiresOnce ==
  [][ \A t \in liveTimers :
        TimerFire(t)
        => /\ MapHas(silenceTimers, t.key)
           /\ MapGet(silenceTimers, t.key) = t.id
           /\ ~MapHas(silenceTimers', t.key)
           /\ t \notin liveTimers'
           /\ Len(calls') <= Len(calls) + 1 ]_vars

\* While the request of a fired timer is in flight, a message has armed a new
\* timer for the same key.
C27_RearmedDuringFlush ==
  /\ \E i \in Pending : calls[i].origin = "timer" /\ calls[i].channel = "default"
  /\ \E t \in liveTimers : t.key = "default"
  /\ MapHas(silenceTimers, "default")

\* C28: every entry of the timer table holds the handle of a timer that is
\* scheduled for its key.
C28_NoStaleHandle ==
  \A i \in 1..Len(silenceTimers) :
    \E t \in liveTimers : t.key = silenceTimers[i][1] /\ t.id = silenceTimers[i][2]

\* C29: a timer that fires for a key without buffer starts no request and logs
\* nothing; the buffer table stays as it is, and of the timers only the one that
\* fired and its entry are gone.
C29_AbsentKeyNoOp ==
  [][ \A t \in liveTimers :
        (TimerFire(t) /\ ~MapHas(messageBuffers, t.key))
        => /\ calls' = calls
           /\ warnings' = warnings
           /\ messageBuffers' = messageBuffers
           /\ liveTimers' = liveTimers \ {t}
           /\ \A k \in MapKeys(silenceTimers) \ {t.key} :
                /\ MapHas(silenceTimers', k)
                /\ MapGet(silenceTimers', k) = MapGet(silenceTimers, k) ]_vars

\* A timer is due for a key whose buffer a flush has removed, while another
\* channel holds a buffer.
C29_TimerWithoutBuffer ==
  /\ \E t \in liveTimers : t.key = "default__flush"
  /\ ~MapHas(messageBuffers, "default__flush")
  /\ MapHas(messageBuffers, "default")
  /\ Pending = {}

\* C30: at most one request of the stop handler is in flight, and every request
\* it issued before its latest one has ended.
C30_DrainSequential ==
  \A i, j \in 1..Len(calls) :
    (i < j /\ calls[i].origin = "stop" /\ calls[j].origin = "stop")
    => calls[i].status # "pending"

\* The stop handler waits for its second request after its first one has ended.
C30_SecondAfterFirst ==
  /\ stopPc = "await"
  /\ \E i, j \in 1..Len(calls) :
       /\ i < j
       /\ calls[i].origin = "stop" /\ calls[i].status # "pending"
       /\ calls[j].origin = "stop" /\ calls[j].status = "pending"

\* Events that keep arriving while the service stops: one message each, for a
\* channel without session identity and for a channel named by its session id.
StormEvents == {Event(NoSession, Plain(1)), Event(SessionFlush, Plain(1))}

\* The capture path with a host that goes on delivering events without end; of
\* these, the ones that create a buffer under a key the table does not hold.
StormNext ==
  \/ \E event \in ConfigEvents : AgentEnd(event)
  \/ \E event \in StormEvents :
       ~MapHas(messageBuffers, getChannelKey(event)) /\ AgentEndSameTick(event)
  \/ \E t \in liveTimers : TimerFire(t)
  \/ \E i \in 1..Len(calls), response \in Responses : FlushDone(i, response)
  \/ Stop
  \/ StopResume

\* Every timer kept scheduled fires, every extraction call returns or throws and
\* the stop handler resumes after each await.
StormSpec ==
  /\ Init /\ [][StormNext]_vars
  /\ WF_vars(\E t \in liveTimers : TimerFire(t))
  /\ WF_vars(\E i \in 1..Len(calls), response \in Responses : FlushDone(i, response))
  /\ WF_vars(StopResume)

\* C31: once the host has called stop, the handler eventually completes, also
\* while agent_end events keep creating buffers during the drain loop.
C31_StopTerminates == (stopPc # "idle") ~> (stopPc = "done")

\* The timers scheduled for key k.
TimersOf(live, k) == {t \in live : t.key = k}

\* The step leaves buffer, timer handle and scheduled timers of every channel key
\* other than k as they are.
OthersUntouched(k) ==
  \A other \in ChannelKeys \ {k} :
    /\ MapHas(messageBuffers', other) = MapHas(messageBuffers, other)
    /\ BufferOf(messageBuffers', other) = BufferOf(messageBuffers, other)
    /\ MapHas(silenceTimers', other) = MapHas(silenceTimers, other)
    /\ TimersOf(liveTimers', other) = TimersOf(liveTimers, other)

\* C32: an agent_end event for channel k, a timer flush of k and the completion of
\* an overflow flush of k leave the buffer and the timer of every other channel
\* key as they are, also of the key that is k followed by "__flush".
C32_ChannelsIsolated ==
  [][ /\ \A e \in Events : AgentEnd(e) => OthersUntouched(getChannelKey(e))
      /\ \A t \in liveTimers : TimerFire(t) => OthersUntouched(t.key)
      /\ \A i \in 1..Len(calls) :
           (Completes(i) /\ calls[i].origin = "overflow")
           => OthersUntouched(HomeKey(calls[i])) ]_vars

\* C33: every silence timer that is scheduled belongs to a key for which the
\* buffer table holds a buffer.
C33_TimerHasBuffer == \A t \in liveTimers : MapHas(messageBuffers, t.key)

\* C34: every key of the buffer table holds at least one message; a buffer that
\* is flushed or discarded leaves the table with its key.
C34_NoEmptyBuffer == \A i \in 1..Len(messageBuffers) : Len(messageBuffers[i][2]) >= 1

\* A timer flush has ended and its key has left the table, which holds the
\* buffer of another channel.
C34_DeletedNotEmptied ==
  /\ \E i \in 1..Len(calls) :
       calls[i].status # "pending" /\ ~MapHas(messageBuffers, calls[i].channel)
  /\ MapKeys(messageBuffers) = {"default__flush"}
  /\ stopPc = "idle"

\* Events of the three kinds of session identity: a channelId and an id, an id
\* only, and none.
KeyEvents ==
  {Event(session, Plain(4)) : session \in {SessionChannel, SessionFlush, NoSession}}
    \cup {Event(NoSession, Plain(16))}

KeyNext ==
  \/ \E event \in KeyEvents : AgentEnd(event)
  \/ \E t \in liveTimers : TimerFire(t)
  \/ \E i \in 1..Len(calls), response \in Responses : FlushDone(i, response)

KeySpec == Init /\ [][KeyNext]_vars

\* The key the claim gives a session: its channelId, else its id, else "default".
ClaimedKey(session) ==
  IF session.channelId # Absent THEN session.channelId
  ELSE IF session.id # Absent THEN session.id
  ELSE "default"

\* C35: an event with qualifying messages is handled under the key that is its
\* session channelId when present, otherwise its session id, otherwise "default":
\* its messages are appended to the buffer of that key; below 20 messages the one
\* timer of that key is armed afresh, and from 20 messages on the whole buffer of
\* that key goes into one request. Events without session identity thus share the
\* buffer, the timer and the batches of "default".
C35_ChannelKey ==
  [][ \A e \in KeyEvents :
        Appends(e)
        => LET k == ClaimedKey(e.session)
               all == BufferOf(messageBuffers, k) \o QualifyingOf(e)
           IN IF Len(all) < MAX_BUFFER_SIZE
              THEN /\ BufferOf(messageBuffers', k) = all
                   /\ MapHas(silenceTimers', k)
                   /\ TimersOf(liveTimers', k) =
                        {[id |-> MapGet(silenceTimers', k), key |-> k,
                          delay |-> SILENCE_TIMEOUT_MS]}
                   /\ TimersOf(liveTimers', k) \cap liveTimers = {}
                   /\ calls' = calls
              ELSE /\ Len(calls') = Len(calls) + 1
                   /\ calls'[Len(calls')].messages = all ]_vars

\* Two events have met in the buffer of "default" under its one timer.
C35_SharedDefault ==
  /\ MapKeys(messageBuffers) = {"default"}
  /\ HasTwoAppends(MapGet(messageBuffers, "default"))
  /\ Cardinality(TimersOf(liveTimers, "default")) = 1
  /\ calls = <<>>

\* C36: with no API key in the plugin configuration and none in the environment,
\* register logs one error and registers no tool, no hook, no CLI command and no
\* service; the buffer table and the timer table stay empty and no extraction
\* call, recall query or search request is ever made.
C36_NoKeyNoPlugin ==
  (plugin.host.pluginConfig.apiKey = Absent /\ plugin.host.env.MOMO_API_KEY = Absent)
  => /\ plugin.pc = "registered" => plugin.errors = 1
     /\ plugin.tools = {} /\ plugin.hooks = {}
     /\ ~plugin.cli /\ ~plugin.service
     /\ messageBuffers = <<>> /\ silenceTimers = <<>> /\ liveTimers = {}
     /\ calls = <<>>
     /\ ~recall.queried
     /\ ~search.called

\* register has run without an API key and has logged its error, with both
\* flags left unset.
C36_RegisteredWithoutKey ==
  /\ plugin.pc = "registered"
  /\ plugin.host.pluginConfig.apiKey = Absent /\ plugin.host.env.MOMO_API_KEY = Absent
  /\ plugin.host.pluginConfig.autoCapture = "undefined"
  /\ plugin.host.pluginConfig.autoRecall = "undefined"
  /\ plugin.errors = 1
====
